---- MODULE Spec2Model ----
(***************************************************************************)
(* sclik: a terminal social network over a content-addressed store.        *)
(*                                                                         *)
(* Part 1 models the daemon supervisor (app/ipfs_setup_handler.py) as a    *)
(* step relation over one record, so that the same relation drives both    *)
(* the step-by-step specification SpecSup and the call summary used by     *)
(* the operations of app/main.py.                                          *)
(***************************************************************************)
EXTENDS Integers, Sequences, FiniteSets, TLC

\* for _ in range(30): the number of polls after setup
PollMax == 30

Min(a, b) == IF a < b THEN a ELSE b

(***************************************************************************)
(* Supervisor: IpfsSetupHandler                                            *)
(***************************************************************************)

\* A liveness probe that has not happened yet.
NoProbe == [tool |-> FALSE, unit |-> FALSE, peers |-> FALSE, result |-> FALSE]

\* _manual_check: run <ipfs_bin> swarm peers; a missing binary
\* (FileNotFoundError) or a failing command both give False.
ManualCheck(bin, peers) == bin /\ peers

\* IsRunning that also falls back to _manual_check when systemctl reports the
\* unit inactive.
IsRunning_FallBackOnInactive(bin, tool, unit, peers) ==
    IF tool /\ unit THEN TRUE ELSE ManualCheck(bin, peers)

\* is_running: with systemctl present the answer is that of
\* `systemctl --user is-active`; FileNotFoundError falls back to _manual_check.
IsRunning(bin, tool, unit, peers) ==
    IF tool THEN unit ELSE ManualCheck(bin, peers)

\* What one probe can observe: is systemctl present, does it report the unit
\* active, does `ipfs swarm peers` succeed.
ProbeInputs == [tool : BOOLEAN, unit : BOOLEAN, peers : BOOLEAN]

Probe(s, in) ==
    [tool |-> in.tool, unit |-> in.unit, peers |-> in.peers,
     result |-> IsRunning(s.bin, in.tool, in.unit, in.peers)]

\* The supervisor's state between calls: the environment it probes
\* (bin: ~/.local/bin/ipfs exists, repo: ~/.ipfs exists) and the locals of
\* the current ensure_running call.
SupIdle(b, r) ==
    [pc |-> "idle", bin |-> b, repo |-> r,
     probes |-> 0, polls |-> 0,
     installs |-> 0, inits |-> 0, registers |-> 0,
     first |-> "none", last |-> NoProbe,
     outcome |-> "none", prev |-> "none"]

\* Entry of ensure_running: fresh locals, the environment is kept.
EnterEnsureRunning(s) ==
    [SupIdle(s.bin, s.repo) EXCEPT !.pc = "check_active", !.prev = s.outcome]

Finish(s, how) == [s EXCEPT !.pc = "done", !.outcome = how]

Observed(s, p) ==
    [s EXCEPT !.probes = s.probes + 1,
              !.last = p,
              !.first = IF s.probes = 0
                        THEN (IF p.result THEN "active" ELSE "inactive")
                        ELSE s.first]

\* CheckActive without the early return.
CheckActive_NoReturn(s) ==
    IF s.pc # "check_active" THEN {}
    ELSE { [Observed(s, Probe(s, in)) EXCEPT !.pc = "check_binary"]
           : in \in ProbeInputs }

\* if self.is_running(): return
CheckActive(s) ==
    IF s.pc # "check_active" THEN {}
    ELSE { LET p == Probe(s, in)
               t == Observed(s, p)
           IN  IF p.result THEN Finish(t, "return")
                           ELSE [t EXCEPT !.pc = "check_binary"]
           : in \in ProbeInputs }

\* CheckBinary that installs whether or not the binary exists.
CheckBinary_Always(s) ==
    IF s.pc # "check_binary" THEN {}
    ELSE { [s EXCEPT !.pc = "install"] }

\* if not os.path.exists(self.ipfs_bin): ... self.install_ipfs()
CheckBinary(s) ==
    IF s.pc # "check_binary" THEN {}
    ELSE { [s EXCEPT !.pc = IF s.bin THEN "init" ELSE "install"] }

\* install_ipfs: wget, tar, cp, chmod.  CalledProcessError -> sys.exit(1);
\* a missing wget/tar (FileNotFoundError) is not caught and propagates.
InstallOutcomes == {"ok", "fail", "nofile"}

\* InstallIpfs that goes on to init_ipfs after a failed install.
InstallIpfs_GoOn(s) ==
    IF s.pc # "install" THEN {}
    ELSE { LET t == [s EXCEPT !.installs = s.installs + 1]
           IN  IF out = "ok" THEN [t EXCEPT !.bin = TRUE, !.pc = "init"]
                             ELSE [t EXCEPT !.pc = "init"]
           : out \in InstallOutcomes }

InstallIpfs(s) ==
    IF s.pc # "install" THEN {}
    ELSE { LET t == [s EXCEPT !.installs = s.installs + 1]
           IN  CASE out = "ok"     -> [t EXCEPT !.bin = TRUE, !.pc = "init"]
                 [] out = "fail"   -> Finish(t, "exit")
                 [] out = "nofile" -> Finish(t, "crash")
           : out \in InstallOutcomes }

\* init_ipfs: only when ~/.ipfs does not exist; CalledProcessError -> sys.exit(1)
InitOutcomes == {"ok", "fail"}

InitIpfs(s) ==
    IF s.pc # "init" THEN {}
    ELSE IF s.repo THEN { [s EXCEPT !.pc = "check_again"] }
    ELSE { LET t == [s EXCEPT !.inits = s.inits + 1]
           IN  IF out = "ok" THEN [t EXCEPT !.repo = TRUE, !.pc = "check_again"]
                             ELSE Finish(t, "exit")
           : out \in InitOutcomes }

\* CheckAgain that registers the service whatever the probe reports.
CheckAgain_Always(s) ==
    IF s.pc # "check_again" THEN {}
    ELSE { [Observed(s, Probe(s, in)) EXCEPT !.pc = "register"]
           : in \in ProbeInputs }

\* if not self.is_running(): ... self.setup_service()
CheckAgain(s) ==
    IF s.pc # "check_again" THEN {}
    ELSE { LET p == Probe(s, in)
               t == Observed(s, p)
           IN  [t EXCEPT !.pc = IF p.result THEN "poll" ELSE "register"]
           : in \in ProbeInputs }

\* setup_service: write the unit file, systemctl daemon-reload, enable --now.
\* CalledProcessError -> message and sys.exit(1); a missing systemctl
\* (FileNotFoundError) is not caught and propagates.
RegisterOutcomes == {"ok", "fail", "nofile"}

SetupService(s) ==
    IF s.pc # "register" THEN {}
    ELSE { LET t == [s EXCEPT !.registers = s.registers + 1]
           IN  CASE out = "ok"     -> [t EXCEPT !.pc = "poll"]
                 [] out = "fail"   -> Finish(t, "exit")
                 [] out = "nofile" -> Finish(t, "crash")
           : out \in RegisterOutcomes }

\* PollActive that keeps polling after a probe reported active.
PollActive_NoReturn(s) ==
    IF s.pc # "poll" \/ s.polls >= PollMax THEN {}
    ELSE { [Observed(s, Probe(s, in)) EXCEPT !.polls = s.polls + 1]
           : in \in ProbeInputs }

\* for _ in range(30): if self.is_running(): return; time.sleep(1)
PollActive(s) ==
    IF s.pc # "poll" \/ s.polls >= PollMax THEN {}
    ELSE { LET p == Probe(s, in)
               t == [Observed(s, p) EXCEPT !.polls = s.polls + 1]
           IN  IF p.result THEN Finish(t, "return") ELSE t
           : in \in ProbeInputs }

\* PollTimeout that returns when the loop runs out.
PollTimeout_Return(s) ==
    IF s.pc = "poll" /\ s.polls >= PollMax THEN { Finish(s, "return") } ELSE {}

\* raise RuntimeError("Failed to start IPFS daemon after setup.")
PollTimeout(s) ==
    IF s.pc = "poll" /\ s.polls >= PollMax THEN { Finish(s, "timeout") } ELSE {}

\* One step of the body of ensure_running.
EnsureRunningStep(s) ==
    CheckActive(s) \cup CheckBinary(s) \cup InstallIpfs(s) \cup InitIpfs(s)
    \cup CheckAgain(s) \cup SetupService(s) \cup PollActive(s) \cup PollTimeout(s)

RECURSIVE RunToEnd(_, _)
RunToEnd(frontier, seen) ==
    IF frontier = {} THEN seen
    ELSE LET new == (UNION { EnsureRunningStep(s) : s \in frontier }) \ seen
         IN  RunToEnd(new, seen \cup new)

\* A whole ensure_running call from environment (b, r): every way it can end,
\* with the environment it leaves behind.
EnsureRunningFrom(b, r) ==
    LET start == EnterEnsureRunning(SupIdle(b, r))
        all   == RunToEnd({start}, {start})
    IN  { [outcome |-> s.outcome, bin |-> s.bin, repo |-> s.repo]
          : s \in { t \in all : t.pc = "done" } }

EnsureRunning == [b \in BOOLEAN |-> [r \in BOOLEAN |-> EnsureRunningFrom(b, r)]]


(***************************************************************************)
(* Part 2: the operations of app/main.py                                   *)
(***************************************************************************)

\* get_own_username(): the username stored in config.json
Me == "alice"

\* Post bodies given on the command line.
Contents == {"x"}

\* time.time() is the wall clock: it may repeat or step back between two
\* invocations, so a post draws its timestamp from 1..MaxTime.
MaxTime == 2

\* Cap on the number of rows of the posts table.
MaxPosts == 2

\* Largest --limit tried by a feed view.
MaxLimit == 3

Range(s) == { s[i] : i \in 1..Len(s) }

\* ipfs_hash = None
None == [kind |-> "none", doc |-> <<>>]

\* `ipfs add -q <file>`: the store is content-addressed, equal bytes give
\* equal ContentIDs and different bytes different ones.
Cid(kind, doc) == [kind |-> kind, doc |-> doc]

\* post_data = {"user": .., "content": .., "timestamp": time.time()}
PostData(user, content, ts) == <<user, content, ts>>

NoPostData == <<>>

\* The profile file ~/.sclik/profiles/<username>.json; exists = FALSE before
\* the first update_profile.
NoProfileFile == [exists |-> FALSE, username |-> "", posts |-> <<>>]

ProfileDoc(p) == <<p.username, p.posts>>

(*--- the remote side: what followed users have published -----------------*)

\* Pointers (IPNS keys) that can be passed to --follow.
Pointers == {"kA", "kB", "kC", "kD", "kN", "kZ"}

\* The profile document each pointer resolves to: kA and kB both claim the
\* username bob, kN has no "username" field, kZ an empty one.
RemoteProfile ==
    [k \in Pointers |->
        CASE k = "kA" -> [has |-> TRUE,  username |-> "bob",   posts |-> <<"a1">>]
          [] k = "kB" -> [has |-> TRUE,  username |-> "bob",   posts |-> <<"b1">>]
          [] k = "kC" -> [has |-> TRUE,  username |-> "carol", posts |-> <<"c1", "c2">>]
          [] k = "kD" -> [has |-> TRUE,  username |-> "dave",  posts |-> <<"d1">>]
          [] k = "kN" -> [has |-> FALSE, username |-> "",      posts |-> <<>>]
          [] k = "kZ" -> [has |-> TRUE,  username |-> "",      posts |-> <<>>]]

RemotePostIds == {"a1", "b1", "c1", "c2", "d1"}

\* The post documents behind the remote post ids: (user, content, timestamp).
RemotePost ==
    [h \in RemotePostIds |->
        CASE h = "a1" -> <<"bob",   "a", 1>>
          [] h = "b1" -> <<"bob",   "b", 2>>
          [] h = "c1" -> <<"carol", "c", 2>>
          [] h = "c2" -> <<"carol", "d", 3>>
          [] h = "d1" -> <<"dave",  "e", 1>>]

(*--- update_profile -------------------------------------------------------*)

\* LoadProfile that never reads the existing file.
LoadProfile_Fresh(file, username) == [username |-> username, posts |-> <<>>]

\* profile = {"username": username, "posts": []}, replaced by the file's
\* content when the file exists.
LoadProfile(file, username) ==
    IF file.exists THEN [username |-> file.username, posts |-> file.posts]
                   ELSE [username |-> username, posts |-> <<>>]

\* AddPostHash that puts the new ContentID in front.
AddPostHash_Prepend(p, post_hash) ==
    IF post_hash # None /\ post_hash \notin Range(p.posts)
    THEN [p EXCEPT !.posts = <<post_hash>> \o p.posts]
    ELSE p

\* AddPostHash without the membership test.
AddPostHash_NoMembership(p, post_hash) ==
    IF post_hash # None
    THEN [p EXCEPT !.posts = Append(p.posts, post_hash)]
    ELSE p

\* if post_hash and post_hash not in profile["posts"]: append
AddPostHash(p, post_hash) ==
    IF post_hash # None /\ post_hash \notin Range(p.posts)
    THEN [p EXCEPT !.posts = Append(p.posts, post_hash)]
    ELSE p

\* json.dump(profile, f)
SaveProfile(p) == [exists |-> TRUE, username |-> p.username, posts |-> p.posts]

\* How the store commands of the publish attempt can go: all succeed, the
\* ipfs executable cannot be started (FileNotFoundError), or one command
\* exits non-zero (CalledProcessError).
PublishOutcomes ==
    {"ok", "nofile", "fail_list", "fail_gen", "fail_list_l", "fail_add", "fail_publish"}

\* The store command at which the publish attempt stops: 1 `ipfs key list`,
\* 2 `ipfs key gen`, 3 `ipfs key list -l`, 4 `ipfs add`, 5 `ipfs name
\* publish`, 6 none.
FailStage(out) ==
    CASE out \in {"nofile", "fail_list"} -> 1
      [] out = "fail_gen"     -> 2
      [] out = "fail_list_l"  -> 3
      [] out = "fail_add"     -> 4
      [] out = "fail_publish" -> 5
      [] out = "ok"           -> 6

\* The try block of update_profile.  k: does the user's key exist, ptr: what
\* the user's pointer resolves to, file: the profile file.  Result: the
\* store afterwards, the local ipfs_hash, whether the pointer was published,
\* and whether an exception left the function (only CalledProcessError is
\* caught).
PublishProfile(k, ptr, file, out) ==
    LET stage    == FailStage(out)
        k1       == IF stage > 2 THEN TRUE ELSE k     \* key gen when not listed
        ipns_key == stage > 3 /\ k1                   \* found in key list -l
        snap     == Cid("profile", ProfileDoc(file))  \* ipfs add -q profile_path
        done     == stage > 5 /\ ipns_key             \* name publish succeeded
    IN  [keys      |-> k1,
         ipns      |-> IF done THEN snap ELSE ptr,
         ipfs_hash |-> IF stage > 4 THEN snap ELSE None,
         published |-> done,
         raised    |-> out = "nofile"]

\* update_profile's locals before the call.
NoUpdate ==
    [post_hash |-> None, profile |-> [username |-> "", posts |-> <<>>],
     ipfs_hash |-> None, out |-> "none", published |-> FALSE,
     returned |-> FALSE, value |-> None]

(*--- post -----------------------------------------------------------------*)

\* How `ipfs add` of the post can go: success, non-zero exit
\* (CalledProcessError), or any other exception.
PutOutcomes == {"ok", "fail", "error"}

\* AddPost with only `except subprocess.CalledProcessError`.
AddPost_NoCatchAll(doc, out) ==
    CASE out = "ok"    -> [ipfs_hash |-> Cid("post", doc), raised |-> FALSE]
      [] out = "fail"  -> [ipfs_hash |-> None, raised |-> FALSE]
      [] out = "error" -> [ipfs_hash |-> None, raised |-> TRUE]

\* The try block of post: both except clauses swallow the failure and leave
\* ipfs_hash = None.
AddPost(doc, out) ==
    IF out = "ok" THEN [ipfs_hash |-> Cid("post", doc), raised |-> FALSE]
                  ELSE [ipfs_hash |-> None, raised |-> FALSE]

\* PostRow that never stores the ContentID.
PostRow_NoHash(doc, h) ==
    [user |-> doc[1], content |-> doc[2], timestamp |-> doc[3], ipfs_hash |-> None]

\* INSERT INTO posts (user, content, timestamp, ipfs_hash)
PostRow(doc, h) ==
    [user |-> doc[1], content |-> doc[2], timestamp |-> doc[3], ipfs_hash |-> h]

\* InsertPost as INSERT OR REPLACE on (user, content, timestamp).
InsertPost_Replace(log, doc, h) ==
    LET other(row) == <<row.user, row.content, row.timestamp>> # doc
    IN  Append(SelectSeq(log, other), PostRow(doc, h))

InsertPost(log, doc, h) == Append(log, PostRow(doc, h))

(*--- follow ---------------------------------------------------------------*)

FollowOutcomes == {"ok", "resolve_fail", "cat_fail", "parse_fail"}

\* target_username = profile.get("username"); if not target_username: raise
\* ValueError
TargetUsername(doc) == IF doc.has THEN doc.username ELSE ""

\* FollowStatus without the check of target_username.
FollowStatus_NoCheck(k, out) == out

\* What the try block of follow ends with.
FollowStatus(k, out) ==
    IF out # "ok" THEN out
    ELSE IF TargetUsername(RemoteProfile[k]) = "" THEN "no_username"
    ELSE "ok"

\* A plain INSERT into a table without the primary key.
InsertOrReplace_Insert(table, u, k) ==
    Append(table, [username |-> u, ipns_key |-> k])

\* INSERT OR REPLACE INTO follows (username, ipns_key): username is the
\* primary key, so the row of that username is deleted and a new row added.
InsertOrReplace(table, u, k) ==
    LET other(row) == row.username # u
    IN  Append(SelectSeq(table, other), [username |-> u, ipns_key |-> k])

Follow(table, k, out) ==
    IF FollowStatus(k, out) = "ok"
    THEN InsertOrReplace(table, TargetUsername(RemoteProfile[k]), k)
    ELSE table

\* The pointer stored for username u before the call ("" when there is none).
PointerOf(table, u) ==
    IF \E i \in 1..Len(table) : table[i].username = u
    THEN table[CHOOSE i \in 1..Len(table) : table[i].username = u].ipns_key
    ELSE ""

NoFollow == [ipns_key |-> "", status |-> "none", replaced |-> ""]

(*--- view_feed ------------------------------------------------------------*)

\* list.sort(key=...) and ORDER BY timestamp ASC: stable, ascending.
RECURSIVE InsertByTime(_, _)
InsertByTime(sorted, x) ==
    IF sorted = <<>> THEN <<x>>
    ELSE IF sorted[Len(sorted)][3] <= x[3] THEN Append(sorted, x)
    ELSE Append(InsertByTime(SubSeq(sorted, 1, Len(sorted) - 1), x),
                sorted[Len(sorted)])

RECURSIVE SortByTime(_)
SortByTime(s) ==
    IF s = <<>> THEN <<>>
    ELSE InsertByTime(SortByTime(SubSeq(s, 1, Len(s) - 1)), s[Len(s)])

\* LocalPosts restricted to the published rows (WHERE ipfs_hash IS NOT NULL).
LocalPosts_PublishedOnly(log) ==
    LET pub(row) == row.ipfs_hash # None
        l == SelectSeq(log, pub)
    IN  SortByTime([i \in 1..Len(l) |-> <<l[i].user, l[i].content, l[i].timestamp>>])

\* SELECT user, content, timestamp FROM posts ORDER BY timestamp ASC
LocalPosts(log) ==
    SortByTime([i \in 1..Len(log) |->
                  <<log[i].user, log[i].content, log[i].timestamp>>])

\* posts[-limit:] as Python evaluates it: the start index -limit counts from
\* the end only when it is negative.
TailSlice(s, n) ==
    LET start == IF -n < 0 THEN (IF Len(s) - n < 0 THEN 0 ELSE Len(s) - n)
                           ELSE Min(-n, Len(s))
    IN  SubSeq(s, start + 1, Len(s))

\* How fetching one followed profile can go, and each of its posts.
PeerOutcomes == {"ok", "resolve_fail", "profile_fail"}
PostFetchOutcomes == {"ok", "fail", "bad"}

\* The inner loop over post_hashes: "fail" (CalledProcessError) skips the
\* post, "bad" (any other exception) leaves the loop for the outer except.
RECURSIVE FetchPosts(_, _, _, _)
FetchPosts(acc0, ids, po, i) ==
    IF i > Len(ids) THEN acc0
    ELSE CASE po[i] = "ok"   -> FetchPosts(Append(acc0, RemotePost[ids[i]]), ids, po, i + 1)
           [] po[i] = "fail" -> FetchPosts(acc0, ids, po, i + 1)
           [] po[i] = "bad"  -> acc0

\* One iteration of the loop over follows.
FetchPeer(acc0, row, out, po) ==
    IF row.ipns_key = "" \/ out # "ok" THEN acc0
    ELSE FetchPosts(acc0, RemoteProfile[row.ipns_key].posts, po, 1)

\* How the visit of this peer went: "ok" when its resolve, its profile fetch
\* and the fetch of each of its posts succeeded, "failed" when an error was
\* printed for it.
PeerResult(row, out, po) ==
    IF /\ row.ipns_key # ""
       /\ out = "ok"
       /\ \A i \in 1..Len(RemoteProfile[row.ipns_key].posts) : po[i] = "ok"
    THEN "ok" ELSE "failed"

\* NextFollow with `break` in place of `continue`.
NextFollow_Break(i, n, out) == IF out = "resolve_fail" THEN n + 1 ELSE i + 1

\* `continue` after a failed resolve, and the except clause inside the loop
\* body: the loop always goes on with the next follow.
NextFollow(i, n, out) == i + 1

\* Cap on the number of update_profile calls of the two side-by-side
\* invocations together.
MaxCalls == 3

Procs == {1, 2}

\* update_profile's locals in one of the two invocations.
NoCall == [pc |-> "idle", post_hash |-> None,
           profile |-> [username |-> "", posts |-> <<>>]]

\* Both invocations idle; calls: the ContentIDs passed so far, in call order;
\* overlapped: was a call started while the other one was in progress;
\* stale: did a call load the file while the other had loaded it and not yet
\* written it.
NoRace == [proc |-> [p \in Procs |-> NoCall], calls |-> <<>>,
           overlapped |-> FALSE, stale |-> FALSE]

VARIABLES
    sup,        \* the supervisor and the environment it probes
    pc,         \* where the current invocation of main.py is
    cmd,        \* which action the invocation was started with
    result,     \* how the invocation ended
    posts,      \* table posts of sclik.db
    follows,    \* table follows of sclik.db
    profile,    \* the profile file of the own username
    keys,       \* does the store hold a key named after the own username
    ipns,       \* what that key's pointer resolves to
    post_data,  \* post: the post document
    ipfs_hash,  \* post: the ContentID of the post document
    put,        \* post: how the `ipfs add` of the post document went
    up,         \* update_profile: its locals and return value
    fl,         \* follow: the pointer given and how the attempt ended
    acc,        \* view_feed: the list posts being collected
    fi,         \* view_feed: position in the loop over follows
    fok,        \* view_feed: for each follow visited, how its fetches went
    limit,      \* view_feed: the limit argument
    feed,       \* view_feed: the rows displayed
    race        \* two invocations of update_profile running side by side

persistent == <<posts, follows, profile, keys, ipns>>
postLocals == <<post_data, ipfs_hash, put>>
feedLocals == <<acc, fi, fok, limit, feed>>
control    == <<pc, cmd, result>>
mainVars   == <<control, persistent, postLocals, up, fl, feedLocals, race>>

vars == <<sup, mainVars>>

LocalsInit ==
    /\ post_data = NoPostData
    /\ ipfs_hash = None
    /\ put = "none"
    /\ up = NoUpdate
    /\ fl = NoFollow
    /\ acc = <<>>
    /\ fi = 0
    /\ fok = <<>>
    /\ limit = 0
    /\ feed = <<>>

\* A new invocation starts with fresh locals.
LocalsReset ==
    /\ post_data' = NoPostData
    /\ ipfs_hash' = None
    /\ put' = "none"
    /\ up' = NoUpdate
    /\ fl' = NoFollow
    /\ acc' = <<>>
    /\ fi' = 0
    /\ fok' = <<>>
    /\ limit' = 0
    /\ feed' = <<>>

MainInit ==
    /\ pc = "idle"
    /\ cmd = "none"
    /\ result = "none"
    /\ posts = <<>>
    /\ follows = <<>>
    /\ profile = NoProfileFile
    /\ keys = FALSE
    /\ ipns = None
    /\ LocalsInit
    /\ race = NoRace

(*--- the supervisor on its own, step by step ------------------------------*)

\* A machine on which nothing is installed yet.
InitSup == sup = SupIdle(FALSE, FALSE) /\ MainInit

SupCall         == sup.pc \in {"idle", "done"} /\ sup' = EnterEnsureRunning(sup) /\ UNCHANGED mainVars
SupCheckActive  == sup' \in CheckActive(sup) /\ UNCHANGED mainVars
SupCheckBinary  == sup' \in CheckBinary(sup) /\ UNCHANGED mainVars
SupInstall      == sup' \in InstallIpfs(sup) /\ UNCHANGED mainVars
SupInit         == sup' \in InitIpfs(sup) /\ UNCHANGED mainVars
SupCheckAgain   == sup' \in CheckAgain(sup) /\ UNCHANGED mainVars
SupRegister     == sup' \in SetupService(sup) /\ UNCHANGED mainVars
SupPoll         == sup' \in PollActive(sup) /\ UNCHANGED mainVars
SupTimeout      == sup' \in PollTimeout(sup) /\ UNCHANGED mainVars

NextSup ==
    \/ SupCall
    \/ SupCheckActive
    \/ SupCheckBinary
    \/ SupInstall
    \/ SupInit
    \/ SupCheckAgain
    \/ SupRegister
    \/ SupPoll
    \/ SupTimeout

SpecSup == InitSup /\ [][NextSup]_vars


(*--- the invocations of main.py -------------------------------------------*)

\* A machine on which the first-time setup has completed: the binary is
\* installed and the repository initialised.
Init == sup = SupIdle(TRUE, TRUE) /\ MainInit

Commands == {"post", "follow", "feed", "help"}

\* CallEnsureRunning that goes on to `next` however the call ended.
CallEnsureRunning_GoOn(at, next) ==
    /\ pc = at
    /\ \E f \in EnsureRunning[sup.bin][sup.repo] :
          /\ sup' = Finish([sup EXCEPT !.bin = f.bin, !.repo = f.repo], f.outcome)
          /\ pc' = next /\ result' = result

\* An ensure_running call made at position `at`: when it returns the
\* invocation goes on at `next`, any other outcome ends the invocation.
CallEnsureRunning(at, next) ==
    /\ pc = at
    /\ \E f \in EnsureRunning[sup.bin][sup.repo] :
          /\ sup' = Finish([sup EXCEPT !.bin = f.bin, !.repo = f.repo], f.outcome)
          /\ IF f.outcome = "return"
             THEN pc' = next /\ result' = result
             ELSE pc' = "done" /\ result' = f.outcome

\* main(): a new invocation of the command line tool, a new process: no
\* ensure_running call has been made in it yet
Start ==
    /\ pc \in {"idle", "done"}
    /\ cmd' = "none"
    /\ pc' = "main_er"
    /\ result' = "none"
    /\ LocalsReset
    /\ sup' = SupIdle(sup.bin, sup.repo)
    /\ UNCHANGED <<race, persistent>>

\* main(): ensure_running
MainEnsure ==
    /\ CallEnsureRunning("main_er", "main_args")
    /\ UNCHANGED <<race, cmd, persistent, postLocals, up, fl, feedLocals>>

\* main(): parse the arguments, init(), and dispatch on the action given
MainDispatch ==
    /\ pc = "main_args"
    /\ \E c \in Commands :
          /\ c = "post" => Len(posts) < MaxPosts
          /\ cmd' = c
          /\ pc' = CASE c = "post"   -> "post_er"
                     [] c = "follow" -> "follow_er"
                     [] c = "feed"   -> "feed_er"
                     [] c = "help"   -> "help"
    /\ UNCHANGED <<race, sup, result, persistent, postLocals, up, fl, feedLocals>>

\* parser.print_help()
Help ==
    /\ pc = "help"
    /\ pc' = "done"
    /\ result' = "ok"
    /\ UNCHANGED <<race, sup, cmd, persistent, postLocals, up, fl, feedLocals>>

\* post: build post_data, then ensure_running
PostEnsure ==
    /\ \E c \in Contents, t \in 1..MaxTime : post_data' = PostData(Me, c, t)
    /\ CallEnsureRunning("post_er", "post_put")
    /\ UNCHANGED <<race, cmd, persistent, ipfs_hash, put, up, fl, feedLocals>>

\* post: the try block around `ipfs add`
PostPut ==
    /\ pc = "post_put"
    /\ \E out \in PutOutcomes :
          LET r == AddPost(post_data, out)
          IN  /\ ipfs_hash' = r.ipfs_hash
              /\ put' = IF out = "ok" THEN "ok" ELSE "failed"
              /\ IF r.raised THEN pc' = "done" /\ result' = "crash"
                             ELSE pc' = "post_store" /\ result' = result
    /\ UNCHANGED <<race, sup, cmd, persistent, post_data, up, fl, feedLocals>>

\* post: INSERT INTO posts, then call update_profile(username, ipfs_hash)
PostStore ==
    /\ pc = "post_store"
    /\ posts' = InsertPost(posts, post_data, ipfs_hash)
    /\ up' = [NoUpdate EXCEPT !.post_hash = ipfs_hash]
    /\ pc' = "up_load"
    /\ UNCHANGED <<race, sup, cmd, result, follows, profile, keys, ipns,
                   postLocals, fl, feedLocals>>

\* update_profile: load the existing profile
UpLoad ==
    /\ pc = "up_load"
    /\ up' = [up EXCEPT !.profile = LoadProfile(profile, Me)]
    /\ pc' = "up_save"
    /\ UNCHANGED <<race, sup, cmd, result, persistent, postLocals, fl, feedLocals>>

\* update_profile: add the new post hash and save the profile locally
UpSave ==
    /\ pc = "up_save"
    /\ LET p == AddPostHash(up.profile, up.post_hash)
       IN  /\ up' = [up EXCEPT !.profile = p]
           /\ profile' = SaveProfile(p)
    /\ pc' = "up_er"
    /\ UNCHANGED <<race, sup, cmd, result, posts, follows, keys, ipns,
                   postLocals, fl, feedLocals>>

\* update_profile: ensure_running
UpEnsure ==
    /\ CallEnsureRunning("up_er", "up_publish")
    /\ UNCHANGED <<race, cmd, persistent, postLocals, up, fl, feedLocals>>

\* update_profile: the publish attempt, the config write and the return
UpPublish ==
    /\ pc = "up_publish"
    /\ \E out \in PublishOutcomes :
          /\ out = "fail_gen" => ~keys
          /\ LET r == PublishProfile(keys, ipns, profile, out)
             IN  /\ keys' = r.keys
                 /\ ipns' = r.ipns
                 /\ up' = [up EXCEPT !.ipfs_hash = r.ipfs_hash,
                                     !.out = out,
                                     !.published = r.published,
                                     !.returned = ~r.raised,
                                     !.value = IF r.raised THEN None ELSE r.ipfs_hash]
                 /\ result' = IF r.raised THEN "crash" ELSE "ok"
    /\ pc' = "done"
    /\ UNCHANGED <<race, sup, cmd, posts, follows, profile, postLocals, fl, feedLocals>>

\* follow: ensure_running
FollowEnsure ==
    /\ CallEnsureRunning("follow_er", "follow_do")
    /\ UNCHANGED <<race, cmd, persistent, postLocals, up, fl, feedLocals>>

\* follow: resolve, fetch the profile, store the follow
FollowDo ==
    /\ pc = "follow_do"
    /\ \E k \in Pointers, out \in FollowOutcomes :
          /\ follows' = Follow(follows, k, out)
          /\ fl' = [ipns_key |-> k, status |-> FollowStatus(k, out),
                    replaced |-> IF FollowStatus(k, out) = "ok"
                                 THEN PointerOf(follows, TargetUsername(RemoteProfile[k]))
                                 ELSE ""]
    /\ pc' = "done"
    /\ result' = "ok"
    /\ UNCHANGED <<race, sup, cmd, posts, profile, keys, ipns, postLocals, up, feedLocals>>

\* view_feed: ensure_running
FeedEnsure ==
    /\ CallEnsureRunning("feed_er", "feed_load")
    /\ UNCHANGED <<race, cmd, persistent, postLocals, up, fl, feedLocals>>

\* view_feed: read the follows and the local posts
FeedLoad ==
    /\ pc = "feed_load"
    /\ acc' = LocalPosts(posts)
    /\ fi' = 1
    /\ pc' = "feed_fetch"
    /\ UNCHANGED <<race, sup, cmd, result, persistent, postLocals, up, fl, fok, limit, feed>>

\* view_feed: one iteration of the loop over follows
FeedFetch ==
    /\ pc = "feed_fetch"
    /\ fi <= Len(follows)
    /\ LET row == follows[fi]
           n   == Len(RemoteProfile[row.ipns_key].posts)
       IN  \E out \in PeerOutcomes, po \in [1..n -> PostFetchOutcomes] :
              /\ acc' = FetchPeer(acc, row, out, po)
              /\ fok' = Append(fok, PeerResult(row, out, po))
              /\ fi' = NextFollow(fi, Len(follows), out)
    /\ UNCHANGED <<race, sup, control, persistent, postLocals, up, fl, limit, feed>>

\* view_feed: sort and display the last `limit` posts
FeedShow ==
    /\ pc = "feed_fetch"
    /\ fi > Len(follows)
    /\ \E n \in 0..MaxLimit :
          /\ limit' = n
          /\ feed' = TailSlice(SortByTime(acc), n)
    /\ pc' = "done"
    /\ result' = "ok"
    /\ UNCHANGED <<race, sup, cmd, persistent, postLocals, up, fl, acc, fi, fok>>

Next ==
    \/ Start
    \/ MainEnsure
    \/ MainDispatch
    \/ Help
    \/ PostEnsure
    \/ PostPut
    \/ PostStore
    \/ UpLoad
    \/ UpSave
    \/ UpEnsure
    \/ UpPublish
    \/ FollowEnsure
    \/ FollowDo
    \/ FeedEnsure
    \/ FeedLoad
    \/ FeedFetch
    \/ FeedShow

Spec == Init /\ [][Next]_vars


(*--- two invocations of update_profile side by side -----------------------*)

\* The ContentIDs update_profile can be called with.
PostIds == { Cid("post", PostData(Me, c, t)) : c \in Contents, t \in 1..MaxTime }

InProgress(p) == race.proc[p].pc \in {"up_load", "up_save"}

Other(p) == CHOOSE q \in Procs : q # p

\* update_profile(username, post_hash) is called in invocation p
RaceCall ==
    /\ Len(race.calls) < MaxCalls
    /\ \E p \in Procs, h \in PostIds :
          /\ ~InProgress(p)
          /\ race' = [race EXCEPT
                 !.proc[p] = [NoCall EXCEPT !.pc = "up_load", !.post_hash = h],
                 !.calls = Append(race.calls, h),
                 !.overlapped = race.overlapped \/ InProgress(Other(p))]
    /\ UNCHANGED <<sup, control, persistent, postLocals, up, fl, feedLocals>>

\* update_profile in invocation p: load the existing profile
RaceLoad ==
    /\ \E p \in Procs :
          /\ race.proc[p].pc = "up_load"
          /\ race' = [race EXCEPT
                 !.proc[p].profile = LoadProfile(profile, Me),
                 !.proc[p].pc = "up_save",
                 !.stale = race.stale \/ race.proc[Other(p)].pc = "up_save"]
    /\ UNCHANGED <<sup, control, persistent, postLocals, up, fl, feedLocals>>

\* update_profile in invocation p: add the new post hash and save the profile
RaceSave ==
    /\ \E p \in Procs :
          /\ race.proc[p].pc = "up_save"
          /\ LET q == AddPostHash(race.proc[p].profile, race.proc[p].post_hash)
             IN  /\ race' = [race EXCEPT !.proc[p].profile = q,
                                         !.proc[p].pc = "done"]
                 /\ profile' = SaveProfile(q)
    /\ UNCHANGED <<sup, control, posts, follows, keys, ipns, postLocals, up, fl,
                   feedLocals>>

NextRace ==
    \/ RaceCall
    \/ RaceLoad
    \/ RaceSave

SpecRace == Init /\ [][NextRace]_vars


(***************************************************************************)
(* Properties                                                              *)
(***************************************************************************)

\* Number of positions of s holding x.
Count(s, x) == Cardinality({ i \in 1..Len(s) : s[i] = x })

Triple(row) == <<row.user, row.content, row.timestamp>>

Ascending(s) == \A i \in 1..Len(s) - 1 : s[i][3] <= s[i + 1][3]

NoDuplicates(s) == \A i, j \in 1..Len(s) : s[i] = s[j] => i = j

FeedDone == pc = "done" /\ cmd = "feed" /\ result = "ok"

\* C1: an ensure_running call whose first probe finds the service active
\* returns at once: it made that one probe and ran no install, no init and no
\* service registration -- in particular a call that follows a successful one.
C1_FastPath ==
    (sup.pc = "done" /\ sup.first = "active")
        => /\ sup.outcome = "return"
           /\ sup.probes = 1
           /\ sup.installs = 0 /\ sup.inits = 0 /\ sup.registers = 0

\* A second call in a row, after the binary was installed by an earlier one,
\* has ended on the fast path.
C1_Witness ==
    /\ sup.pc = "done" /\ sup.first = "active" /\ sup.outcome = "return"
    /\ sup.prev = "return" /\ sup.bin /\ sup.repo

\* C2: whatever the outcome of the store put, post goes on to the INSERT, and
\* the INSERT appends exactly one row (user, content, timestamp,
\* ContentID-or-none) to the posts table; nothing else changes the table.
C2_PostAlwaysStored ==
    [][ /\ pc = "post_put" => (pc' = "post_store" /\ posts' = posts)
        /\ pc = "post_store" =>
              /\ ipfs_hash \in {None, Cid("post", post_data)}
              /\ posts' = Append(posts, [user |-> Me, content |-> post_data[2],
                                         timestamp |-> post_data[3],
                                         ipfs_hash |-> ipfs_hash])
        /\ posts' # posts => pc = "post_store" ]_vars

\* The put failed and the row is in the table, without ContentID.
C2_Witness ==
    /\ pc = "up_load" /\ ipfs_hash = None /\ Len(posts) > 0
    /\ posts[Len(posts)] = [user |-> Me, content |-> post_data[2],
                            timestamp |-> post_data[3], ipfs_hash |-> None]

\* C3: the posts list of the profile never holds a ContentID twice, and an
\* update_profile call with a ContentID that is already listed leaves the
\* list as it was.
C3_ProfileIdempotent ==
    /\ [](NoDuplicates(profile.posts) /\ NoDuplicates(up.profile.posts))
    /\ [][ (pc = "up_save" /\ up.post_hash \in Range(profile.posts))
              => profile'.posts = profile.posts ]_vars

\* update_profile ran with the ContentID of a second, identical post.
C3_Witness ==
    /\ pc = "up_er" /\ up.post_hash # None
    /\ Len(posts) = 2 /\ posts[1].ipfs_hash = up.post_hash
    /\ posts[2].ipfs_hash = up.post_hash
    /\ profile.posts = <<up.post_hash>>

\* The pointers whose profile document has no username, or an empty one.
Nameless == { k \in Pointers : ~RemoteProfile[k].has \/ RemoteProfile[k].username = "" }

\* C4: follow of a pointer whose profile has no (or an empty) username ends
\* in an error, and every follow that ends in an error -- validation, resolve
\* or fetch -- leaves the follows table as it was.
C4_FailedFollowKeepsTable ==
    [][ pc = "follow_do" =>
           /\ fl'.ipns_key \in Nameless => fl'.status # "ok"
           /\ fl'.status # "ok" => follows' = follows ]_vars

\* A follow failed on the missing username while the table held a row.
C4_Witness ==
    /\ pc = "done" /\ fl.status = "no_username" /\ fl.ipns_key = "kN"
    /\ Len(follows) > 0

\* C5: the follows table has at most one row per username, and after a
\* successful follow its single row for the claimed username holds the
\* pointer just given.
C5_FollowLastWriteWins ==
    /\ \A i, j \in 1..Len(follows) :
          follows[i].username = follows[j].username => i = j
    /\ (pc = "done" /\ fl.status = "ok") =>
          LET u == RemoteProfile[fl.ipns_key].username
          IN  /\ Cardinality({ i \in 1..Len(follows) : follows[i].username = u }) = 1
              /\ PointerOf(follows, u) = fl.ipns_key

\* follow(kA) was replaced by follow(kB): both claim the username bob.
C5_Witness ==
    /\ pc = "done" /\ fl.status = "ok"
    /\ fl.ipns_key = "kB" /\ fl.replaced = "kA"

\* C6: the feed shown is the last min(limit, total) entries of the merged
\* posts in ascending timestamp order, for every limit >= 0.
C6_FeedIsTrailingLimit ==
    FeedDone =>
        LET sorted == SortByTime(acc)
            m == Min(limit, Len(sorted))
        IN  /\ Len(feed) = m
            /\ feed = SubSeq(sorted, Len(sorted) - m + 1, Len(sorted))
            /\ Ascending(feed)

\* The posts a feed view has to show when nothing is cut off: the local ones
\* and those of every follow all of whose fetches succeeded.
RECURSIVE PostsOfOkPeers(_)
PostsOfOkPeers(i) ==
    IF i = 0 THEN <<>>
    ELSE PostsOfOkPeers(i - 1) \o
         (IF i <= Len(fok) /\ fok[i] = "ok"
          THEN [j \in 1..Len(RemoteProfile[follows[i].ipns_key].posts) |->
                   RemotePost[RemoteProfile[follows[i].ipns_key].posts[j]]]
          ELSE <<>>)

\* C7: a follow whose resolve or fetch fails is skipped: every follow is
\* visited, and a feed view whose limit cuts nothing off shows, in ascending
\* timestamp order, all local posts and all posts of every follow whose
\* resolve and fetches succeeded, wherever the failing follow stands.
C7_PeerFailureSkipsPeerOnly ==
    (FeedDone /\ limit >= Len(acc)) =>
        LET due == [i \in 1..Len(posts) |-> Triple(posts[i])]
                   \o PostsOfOkPeers(Len(follows))
        IN  /\ Len(fok) = Len(follows)
            /\ \A i \in 1..Len(due) : Count(feed, due[i]) >= Count(due, due[i])
            /\ Ascending(feed)

\* Three follows, the middle one failed and contributed nothing, the posts
\* of the other two and a local post are shown.
C7_Witness ==
    /\ FeedDone /\ limit >= Len(acc)
    /\ Len(follows) = 3 /\ Len(posts) > 0
    /\ fok = <<"ok", "failed", "ok">>
    /\ \A i \in 1..Len(feed) : feed[i][1] # follows[2].username
    /\ \E i \in 1..Len(feed) : feed[i][1] = follows[1].username
    /\ \E i \in 1..Len(feed) : feed[i][1] = follows[3].username
    /\ \E i \in 1..Len(feed) : feed[i][1] = Me

\* C8: with no follows and a limit of at least the number of local posts, the
\* feed shows every row of the posts table exactly as often as it was posted:
\* the post just made is there once.
C8_PostShownOnce ==
    (FeedDone /\ follows = <<>> /\ limit >= Len(posts)) =>
        /\ Len(feed) = Len(posts)
        /\ \A i \in 1..Len(posts) :
              Count(feed, Triple(posts[i]))
                 = Cardinality({ j \in 1..Len(posts) : Triple(posts[j]) = Triple(posts[i]) })

\* One post was made, unpublished, and the feed shows it once.
C8_Witness ==
    /\ FeedDone /\ follows = <<>> /\ limit >= Len(posts)
    /\ Len(posts) = 1 /\ posts[1].ipfs_hash = None
    /\ feed = <<Triple(posts[1])>>

\* C9: update_profile returns a ContentID only when the pointer was published
\* to that snapshot; when the publish failed it returns none.
C9_ReturnMeansPublished ==
    (pc = "done" /\ up.returned /\ up.value # None)
        => (up.published /\ ipns = up.value)

\* C10: whatever goes wrong in the store during the publish attempt,
\* update_profile keeps the profile it wrote to disk and returns normally.
C10_PublishFailureNotFatal ==
    [][ pc = "up_publish" =>
           (profile' = profile /\ up'.returned /\ result' = "ok") ]_vars

IsPrefix(s, t) == Len(s) <= Len(t) /\ s = SubSeq(t, 1, Len(s))

\* The posts list update_profile builds when it is called once for every row
\* of the log whose put succeeded, in the order of the rows.
RECURSIVE Replay(_)
Replay(log) ==
    IF log = <<>> THEN <<>>
    ELSE LET before == Replay(SubSeq(log, 1, Len(log) - 1))
             h == log[Len(log)].ipfs_hash
         IN  IF h # None /\ h \notin Range(before) THEN Append(before, h) ELSE before

\* The posts list of a profile snapshot.
SnapshotPosts(cid) == cid.doc[2]

\* C11: the posts list of the snapshot the user's pointer resolves to, and
\* that of the profile file, is a prefix of the replay of the successful
\* local posts in order: nothing reordered, nothing that no post produced.
C11_SnapshotIsPrefixOfReplay ==
    /\ IsPrefix(profile.posts, Replay(posts))
    /\ ipns # None =>
          /\ ipns.kind = "profile"
          /\ IsPrefix(SnapshotPosts(ipns), Replay(posts))

\* Two different posts succeeded, the publish after the second failed: the
\* pointer still resolves to the snapshot with the first post only.
C11_Witness ==
    /\ pc = "done" /\ cmd = "post" /\ ~up.published
    /\ Len(Replay(posts)) = 2
    /\ ipns # None /\ SnapshotPosts(ipns) = <<posts[1].ipfs_hash>>
    /\ profile.posts = Replay(posts)

\* C12: the polling loop probes at most PollMax = 30 times; it returns on the
\* first probe that reports active, so while it goes on every probe so far
\* was inactive; the timeout is raised only after 30 inactive probes, with
\* the binary present and the repository initialised, and it is the only
\* failure after polling began (install, init and registration failures end
\* the call before the first poll).
C12_PollBounded ==
    /\ sup.polls <= PollMax
    /\ (sup.pc = "poll" /\ sup.polls > 0) => ~sup.last.result
    /\ (sup.pc = "done" /\ sup.polls > 0) =>
          /\ sup.outcome \in {"return", "timeout"}
          /\ sup.outcome = "return" <=> sup.last.result
    /\ sup.outcome = "timeout" =>
          /\ sup.pc = "done" /\ sup.polls = PollMax /\ ~sup.last.result
          /\ sup.bin /\ sup.repo
    /\ sup.outcome \in {"exit", "crash"} => sup.polls = 0

\* A call that installed, initialised and registered, and then timed out.
C12_Witness ==
    /\ sup.pc = "done" /\ sup.outcome = "timeout" /\ sup.polls = PollMax
    /\ sup.installs = 1 /\ sup.inits = 1 /\ sup.registers = 1

\* C13: a service registration that fails -- systemctl absent or exiting
\* non-zero -- ends the call with the explicit message and sys.exit(1), never
\* with an unhandled exception.
C13_RegisterFailureExplicit ==
    (sup.pc = "done" /\ sup.registers > 0 /\ sup.polls = 0)
        => sup.outcome = "exit"

\* C14: the row a post call stores has a ContentID exactly when the put of
\* that call succeeded, and then it is the ContentID of that post's
\* document; after a failed put the row is stored without one; a row, once
\* stored, keeps what it has.
C14_ContentIdIffPutSucceeded ==
    [][ /\ pc = "post_store" =>
              /\ put \in {"ok", "failed"}
              /\ Len(posts') = Len(posts) + 1
              /\ posts'[Len(posts')].ipfs_hash =
                    IF put = "ok" THEN Cid("post", post_data) ELSE None
              /\ Cid("post", post_data) # None
        /\ SubSeq(posts', 1, Len(posts)) = posts ]_vars

\* A log with one row of a failed put followed by one of a successful put.
C14_Witness ==
    /\ pc = "up_load" /\ put = "ok" /\ Len(posts) = 2
    /\ posts[1].ipfs_hash = None
    /\ posts[2].ipfs_hash = Cid("post", post_data)

\* Position of a supervisor step in the body of ensure_running.
StepRank(p) ==
    CASE p = "check_active" -> 1
      [] p = "check_binary" -> 2
      [] p = "install"      -> 3
      [] p = "init"         -> 4
      [] p = "check_again"  -> 5
      [] p = "register"     -> 6
      [] p = "poll"         -> 7
      [] p = "done"         -> 8

InCall == sup.pc \notin {"idle", "done"}

\* C15: within one ensure_running call the steps follow the order
\* CHECK_ACTIVE, CHECK_BINARY, INSTALL_BINARY, INIT_REPO, REGISTER_SERVICE,
\* POLL_UNTIL_ACTIVE: a step never leads back to an earlier one and only the
\* poll repeats; install, init and registration each run at most once;
\* install runs only with the binary absent and init only with the data
\* directory absent.
C15_LinearOrder ==
    [][ /\ sup'.installs <= 1 /\ sup'.inits <= 1 /\ sup'.registers <= 1
        /\ InCall =>
              /\ StepRank(sup'.pc) >= StepRank(sup.pc)
              /\ StepRank(sup'.pc) = StepRank(sup.pc) => sup.pc = "poll"
              /\ sup'.installs > sup.installs => (sup.pc = "install" /\ ~sup.bin)
              /\ sup'.inits > sup.inits => (sup.pc = "init" /\ ~sup.repo)
              /\ sup'.registers > sup.registers => sup.pc = "register" ]_vars

\* A call went through every step once: install, init, registration, polls.
C15_Witness ==
    /\ sup.pc = "done" /\ sup.outcome = "return"
    /\ sup.installs = 1 /\ sup.inits = 1 /\ sup.registers = 1
    /\ sup.polls > 1

\* The call has ended without returning to its caller and ran none of the
\* steps after init_ipfs.
AbortedBeforeRegister(s) ==
    /\ s.pc = "done" /\ s.outcome \in {"exit", "crash"}
    /\ s.registers = 0 /\ s.polls = 0

\* C16: an install that fails ends the ensure_running call at once with an
\* error (sys.exit(1) or the exception of the failed command): no init, no
\* further probe, no registration, no poll; an init that fails ends it with
\* sys.exit(1): no further probe, no registration, no poll.  The call does
\* not return to its caller, and the next supervisor step is that of a new
\* call.
C16_SetupFailureIsFatal ==
    [][ /\ (sup.pc = "install" /\ sup'.installs > sup.installs /\ ~sup'.bin) =>
              /\ AbortedBeforeRegister(sup')
              /\ sup'.inits = 0 /\ sup'.probes = sup.probes
        /\ (sup.pc = "init" /\ sup'.inits > sup.inits /\ ~sup'.repo) =>
              /\ AbortedBeforeRegister(sup')
              /\ sup'.outcome = "exit" /\ sup'.probes = sup.probes
        /\ (sup.pc = "done" /\ sup.outcome # "return" /\ sup' # sup) =>
              sup' = EnterEnsureRunning(sup) ]_vars

\* A call whose install failed was followed by a call whose install
\* succeeded and whose init failed.
C16_Witness ==
    /\ sup.pc = "done" /\ sup.outcome = "exit" /\ sup.prev = "exit"
    /\ sup.installs = 1 /\ sup.bin
    /\ sup.inits = 1 /\ ~sup.repo
    /\ sup.probes = 1 /\ sup.registers = 0 /\ sup.polls = 0

\* C17: setup_service is entered only from the probe taken after install and
\* init, and only when that probe reports inactive, with the binary present
\* and the repository initialised; when that probe reports active the call
\* goes to the polling loop and registers nothing.
C17_RegisterOnlyIfInactive ==
    [][ /\ (sup'.pc = "register" /\ sup.pc # "register") =>
              /\ sup.pc = "check_again" /\ ~sup'.last.result
              /\ sup'.bin /\ sup'.repo /\ sup'.registers = 0
        /\ (sup.pc = "check_again" /\ sup' # sup /\ sup'.last.result) =>
              (sup'.pc = "poll" /\ sup'.registers = 0)
        /\ sup'.registers > sup.registers =>
              (sup.pc = "register" /\ ~sup.last.result)
        /\ (sup.pc = "poll" /\ sup.registers = 0) => sup'.registers = 0 ]_vars

\* After an install and an init the probe found the service active: the call
\* returned from the polling loop without a registration.
C17_Witness ==
    /\ sup.pc = "done" /\ sup.outcome = "return"
    /\ sup.installs = 1 /\ sup.inits = 1
    /\ sup.probes = 3 /\ sup.polls = 1 /\ sup.registers = 0

\* The positions at which an operation runs store commands, and the
\* ensure_running call of the same operation that leads there.
StoreSteps == {"post_put", "up_publish", "follow_do", "feed_load"}

EnsureStepOf(p) ==
    CASE p = "post_put"   -> "post_er"
      [] p = "up_publish" -> "up_er"
      [] p = "follow_do"  -> "follow_er"
      [] p = "feed_load"  -> "feed_er"

EnsureSteps == {"main_er", "post_er", "up_er", "follow_er", "feed_er"}

\* C18: post, update_profile, follow and view_feed reach their store
\* commands only from their own ensure_running call and only when that call
\* returned; an ensure_running call that ends in any other way ends the
\* invocation with the store, the database and the profile file untouched;
\* the store changes only in the publish step.
C18_StoreOnlyAfterEnsureRunning ==
    [][ /\ (pc' \in StoreSteps /\ pc' # pc) =>
              (pc = EnsureStepOf(pc') /\ sup'.outcome = "return")
        /\ pc' = "feed_fetch" => pc \in {"feed_load", "feed_fetch"}
        /\ pc \in StoreSteps \cup {"feed_fetch"} =>
              (sup.outcome = "return" /\ sup' = sup)
        /\ (pc \in EnsureSteps /\ pc' # pc /\ sup'.outcome # "return") =>
              /\ pc' = "done" /\ result' = sup'.outcome
              /\ UNCHANGED <<persistent, ipfs_hash, put, up, fl, feedLocals>>
        /\ (keys' # keys \/ ipns' # ipns) => pc = "up_publish"
        /\ (pc = "done" /\ pc' # pc) => pc' = "main_er" ]_vars

\* The ensure_running call of update_profile failed after the post was
\* stored: nothing was published and the invocation is over.
C18_Witness ==
    /\ pc = "done" /\ cmd = "post" /\ sup.outcome = "timeout"
    /\ up.out = "none" /\ Len(posts) = 1 /\ profile.exists
    /\ ~keys /\ ipns = None

\* C19: a probe made with systemctl present reports active exactly when
\* systemctl reports the unit active, whatever `ipfs swarm peers` would say;
\* a probe made with systemctl absent reports active exactly when the binary
\* exists and `ipfs swarm peers` succeeds.
C19_TwoTierProbe ==
    [][ sup'.probes > sup.probes =>
           LET p == sup'.last
           IN  /\ p.tool => (p.result <=> p.unit)
               /\ ~p.tool => (p.result <=> (sup.bin /\ p.peers)) ]_vars

\* A call returned on a first probe made without systemctl: the peers
\* command answered.
C19_Witness ==
    /\ sup.pc = "done" /\ sup.outcome = "return" /\ sup.probes = 1
    /\ ~sup.last.tool /\ ~sup.last.unit /\ sup.last.peers /\ sup.last.result
    /\ sup.bin

\* The post documents among ids whose fetch and parse succeed, in order.
RECURSIVE FetchedOk(_, _, _)
FetchedOk(ids, po, i) ==
    IF i > Len(ids) THEN <<>>
    ELSE (IF po[i] = "ok" THEN <<RemotePost[ids[i]]>> ELSE <<>>)
         \o FetchedOk(ids, po, i + 1)

\* C20: when view_feed visits a follow whose pointer resolves and whose
\* profile is fetched, then however the fetch and parse of each listed post
\* goes, the visit appends exactly the posts that were fetched and parsed
\* successfully: a failing post is left out and the posts listed after it
\* are still included.
C20_PostFailureSkipsPostOnly ==
    (pc = "feed_fetch" /\ fi <= Len(follows)) =>
        LET row == follows[fi]
            ids == RemoteProfile[row.ipns_key].posts
        IN  \A po \in [1..Len(ids) -> PostFetchOutcomes] :
               FetchPeer(acc, row, "ok", po) = acc \o FetchedOk(ids, po, 1)

\* The orders in which n follows can be visited.
VisitOrders(n) ==
    { f \in [1..n -> 1..n] : \A i, j \in 1..n : f[i] = f[j] => i = j }

\* The list view_feed collects when it visits the follows in the given
\* order and every resolve and fetch succeeds.
RECURSIVE FetchInOrder(_, _, _)
FetchInOrder(acc0, order, i) ==
    IF i > Len(order) THEN acc0
    ELSE LET row == follows[order[i]]
             n   == Len(RemoteProfile[row.ipns_key].posts)
         IN  FetchInOrder(FetchPeer(acc0, row, "ok", [j \in 1..n |-> "ok"]),
                          order, i + 1)

\* C21: the feed shown does not depend on the order in which the follows are
\* fetched: when every fetch succeeded, visiting the same follows in any
\* other order would have shown the same sequence, also when posts share a
\* timestamp.
C21_FeedIndependentOfFetchOrder ==
    (FeedDone /\ \A i \in 1..Len(fok) : fok[i] = "ok") =>
        \A order \in VisitOrders(Len(follows)) :
            TailSlice(SortByTime(FetchInOrder(LocalPosts(posts), order, 1)), limit)
                = feed

\* The distinct elements of s in the order of their first occurrence.
RECURSIVE DistinctInOrder(_)
DistinctInOrder(s) ==
    IF s = <<>> THEN <<>>
    ELSE LET before == DistinctInOrder(SubSeq(s, 1, Len(s) - 1))
         IN  IF s[Len(s)] \in Range(before) THEN before
             ELSE Append(before, s[Len(s)])

RaceQuiet == \A p \in Procs : ~InProgress(p)

\* C22: when the update_profile calls ran strictly one after another, the
\* profile on disk lists every ContentID passed, in call order; a ContentID
\* can be missing from it only when a call loaded the file while another
\* call had loaded it and not yet written it.
C22_SequentialUpdatesAreKept ==
    RaceQuiet =>
        /\ ~race.overlapped => profile.posts = DistinctInOrder(race.calls)
        /\ ~race.stale => Range(race.calls) \subseteq Range(profile.posts)
        /\ Range(profile.posts) \subseteq Range(race.calls)

\* The lost update: two calls with different ContentIDs both loaded the file
\* before either wrote it, and the file holds only one of the two.
C22_Witness ==
    /\ RaceQuiet /\ race.stale
    /\ Len(race.calls) = 2 /\ race.calls[1] # race.calls[2]
    /\ Len(profile.posts) = 1

\* C23: the posts table only grows at the end: every step keeps the rows it
\* finds, unchanged and in place; only the INSERT of post adds a row, one at
\* a time, authored by the own username; follow and view_feed leave the
\* table as it is, so a row stored without ContentID never gets one.
C23_LogAppendOnly ==
    [][ /\ IsPrefix(posts, posts')
        /\ posts' # posts =>
              /\ pc = "post_store" /\ cmd = "post"
              /\ Len(posts') = Len(posts) + 1
              /\ Triple(posts'[Len(posts')]) = post_data
        /\ \A i \in 1..Len(posts') : posts'[i].user = Me ]_vars

\* A feed view showed posts of a follow; the table holds the two local rows
\* of the same post only, the first still without ContentID although the same
\* document was published by the second.
C23_Witness ==
    /\ FeedDone /\ Len(follows) > 0 /\ Len(feed) > Len(posts)
    /\ \E i \in 1..Len(feed) : feed[i][1] # Me
    /\ Len(posts) = 2 /\ Triple(posts[1]) = Triple(posts[2])
    /\ posts[1].ipfs_hash = None /\ posts[2].ipfs_hash # None

\* C24: an ensure_running call that has returned made at least one probe and
\* its most recent probe reported active; a call whose most recent probe
\* reported inactive has ended, if at all, in sys.exit(1), an exception of a
\* setup command, or the timeout error.
C24_ReturnMeansActive ==
    /\ (sup.pc = "done" /\ sup.outcome = "return") =>
          (sup.probes >= 1 /\ sup.last.result)
    /\ (sup.pc = "done" /\ ~sup.last.result) =>
          sup.outcome \in {"exit", "crash", "timeout"}

\* A call returned from the polling loop after a registration: two polls
\* were inactive, the third active.
C24_Witness ==
    /\ sup.pc = "done" /\ sup.outcome = "return" /\ sup.last.result
    /\ sup.registers = 1 /\ sup.polls = 3 /\ sup.probes = 5

\* C25: every ensure_running call that has ended has ended in one of three
\* ways -- normal return, sys.exit(1) of a failed setup step, or the timeout
\* error -- and made at most PollMax + 2 = 32 probes.
C25_ThreeOutcomes ==
    sup.pc = "done" =>
        /\ sup.outcome \in {"return", "exit", "timeout"}
        /\ sup.probes <= PollMax + 2

====
